---- MODULE Spec2Model ----
(***************************************************************************)
(* Cross-source product matching: the product store (db.products), the    *)
(* importer that fills it, the matching job (ProductMapper.run_matching)  *)
(* and the migration script (migrate_matches.migrate) that merge listings *)
(* into canonical products.                                               *)
(***************************************************************************)
EXTENDS Integers, Sequences, FiniteSets, TLC

(***************************************************************************)
(* Bounds of the model.                                                   *)
(***************************************************************************)
\* documents ever inserted into db.products (ids are never reused)
MaxProducts == 3

(***************************************************************************)
(* The store: db.products.                                                *)
(***************************************************************************)
OUR_COMPANY == "Glovo"
Aggregators == {OUR_COMPANY, "Wolt"}
\* Raw display names as the sources spell them.
Names == {"Coca-Cola", "coca cola"}
ProductIds == 1..MaxProducts

\* A price entry of a document.  external_id stands for the whole content
\* of the entry (price, url, updated_at): two entries are the same object
\* exactly when aggregator and external_id agree.  A source's listing is
\* identified by its raw name, so external_id is that name.
PriceEntry(aggregator, name) == [aggregator |-> aggregator, external_id |-> name]

\* An id with no document behind it (never inserted, or deleted).
NoDoc == [exists |-> FALSE, name |-> "", prices |-> << >>,
          mapping_status |-> "none", parent_id |-> 0]

NewDoc(name, prices) == [exists |-> TRUE, name |-> name, prices |-> prices,
                         mapping_status |-> "pending", parent_id |-> 0]

VARIABLES
    products,   \* db.products: _id -> document (NoDoc when there is none)
    nextId,     \* the next _id insert_many hands out
    mig,        \* the migration script: where it is, and its local variables
    job         \* the matching job: where it is, and its local variables

storeVars == <<products, nextId>>

\* The aggregators of a price list, as the code collects them in a set.
AggregatorsOf(prices) == {prices[i].aggregator : i \in 1..Len(prices)}

\* {"prices.aggregator": OUR_COMPANY}
HasOur(doc) == OUR_COMPANY \in AggregatorsOf(doc.prices)

\* The ids of the documents a find() returns.  Natural order is _id order,
\* so a result list is the set of its ids read in increasing order.
\* find({'name': {'$in': [name]}})
FindByName(db, name) == {i \in ProductIds : db[i].exists /\ db[i].name = name}
\* find({'prices.aggregator': OUR_COMPANY})
FindOurs(db) == {i \in ProductIds : db[i].exists /\ HasOur(db[i])}

\* The first n ids of a result (to_list(length=n)).
Take(ids, n) == {i \in ids : Cardinality({j \in ids : j < i}) < n}

Max(S) == CHOOSE x \in S : \A y \in S : y <= x
Min(S) == CHOOSE x \in S : \A y \in S : x <= y

\* The last id of a result, 0 if it is empty (a dict built by assignment
\* keeps the last value written under a key).
LastOf(ids) == IF ids = {} THEN 0 ELSE Max(ids)

(***************************************************************************)
(* Text normalisation: lower case, punctuation to blanks.                 *)
(***************************************************************************)
normalize_text(text) ==
    CASE text = "Coca-Cola" -> "coca cola"
      [] text = "coca cola" -> "coca cola"
      [] OTHER              -> ""

\* DataImporter._build_match_key: normalised name|brand|weight (brand and
\* weight are not modelled: the key is the normalised name).
_build_match_key(name) == normalize_text(name)

(***************************************************************************)
(* DataImporter._process_batch, for a batch of one item.                  *)
(***************************************************************************)
\* A batch item: the parsed name and the aggregator it was scraped from.
Items == [name : Names, aggregator : Aggregators]

\* existing_map.get(name): the documents found by name, cut to len(names) = 1,
\* keyed by name with the last one winning.
ExistingByName(db, name) ==
    LET existing_docs == Take(FindByName(db, name), 1)
    IN  LastOf(existing_docs)

\* self._our_index.get(match_key): our documents keyed by match key.
OurIndexGet(db, name) ==
    LastOf({i \in FindOurs(db) :
               _build_match_key(db[i].name) = _build_match_key(name)})

\* prices = [p for p in prices if p.get('aggregator') != aggregator]
WithoutAggregator(prices, aggregator) ==
    SelectSeq(prices, LAMBDA p : p.aggregator # aggregator)

\* The item is resolved to an existing document (by name, else by match key
\* among ours) whose entry of the item's aggregator is replaced, or becomes a
\* new pending document.
_process_batch(item) ==
    LET price_entry == PriceEntry(item.aggregator, item.name)
        byName == ExistingByName(products, item.name)
        existing == IF byName # 0 THEN byName ELSE OurIndexGet(products, item.name)
    IN  IF existing # 0
        THEN /\ products' = [products EXCEPT ![existing].prices =
                    Append(WithoutAggregator(@, item.aggregator), price_entry)]
             /\ UNCHANGED nextId
        ELSE /\ nextId <= MaxProducts
             /\ products' = [products EXCEPT ![nextId] = NewDoc(item.name, <<price_entry>>)]
             /\ nextId' = nextId + 1

Import == \E item \in Items : _process_batch(item)

(***************************************************************************)
(* migrate_matches.py: AggressiveMatcher and migrate()                    *)
(***************************************************************************)
MigIdle == [pc |-> "idle", ryadom |-> << >>, pos |-> 0, product |-> 0, target |-> 0]

\* ryadom_products as loaded at the start: (_id, name) of every document
\* with a price of ours, in _id order.
RECURSIVE LoadOurs(_, _)
LoadOurs(db, i) ==
    IF i > MaxProducts THEN << >>
    ELSE (IF db[i].exists /\ HasOur(db[i]) THEN <<[id |-> i, name |-> db[i].name]>>
          ELSE << >>) \o LoadOurs(db, i + 1)

\* AggressiveMatcher.find_match: name_index[norm_name][0], the first loaded
\* product with the same normalised name, else None (0).  The brand+weight
\* and fuzzy steps need a brand, which the sample names do not carry.
find_match(ryadom, item_name) ==
    LET hits == {i \in 1..Len(ryadom) :
                    normalize_text(ryadom[i].name) = normalize_text(item_name)}
    IN  IF hits # {} THEN ryadom[Min(hits)].id ELSE 0

\* {"$addToSet": {"prices": {"$each": new}}}: every entry of new that is not
\* yet an element of prices is appended.
RECURSIVE AddToSet(_, _)
AddToSet(prices, new) ==
    IF new = << >> THEN prices
    ELSE AddToSet(IF \E i \in 1..Len(prices) : prices[i] = Head(new)
                  THEN prices ELSE Append(prices, Head(new)),
                  Tail(new))

\* The cursor's filter: no price of ours, and not already merged.
IsStandalone(doc) == ~HasOur(doc) /\ doc.mapping_status # "merged_into_parent"

\* The documents the cursor has still to yield (it reads on as the loop goes).
MigrateRest ==
    {i \in ProductIds : products[i].exists /\ IsStandalone(products[i]) /\ i > mig.pos}

\* Lines 136-141: load our products and index them.  The script and the
\* matching job are run one at a time (the single-writer batch design).
MigrateStart ==
    /\ mig.pc \in {"idle", "killed"}
    /\ job.pc \in {"idle", "interrupted"}
    /\ mig' = [MigIdle EXCEPT !.pc = "cursor", !.ryadom = LoadOurs(products, 1)]
    /\ UNCHANGED storeVars

\* Lines 153-190: the cursor yields the next standalone product; with a match,
\* its prices are added to the target parent, which is marked matched.
MigrateMerge ==
    /\ mig.pc = "cursor"
    /\ MigrateRest # {}
    /\ LET product == Min(MigrateRest)
           match == find_match(mig.ryadom, products[product].name)
       IN  IF match # 0
           THEN /\ products' =
                      IF products[match].exists
                      THEN [products EXCEPT
                              ![match].prices = AddToSet(@, products[product].prices),
                              ![match].mapping_status = "matched"]
                      ELSE products
                /\ mig' = [mig EXCEPT !.pc = "mark", !.pos = product,
                                      !.product = product, !.target = match]
           ELSE /\ mig' = [mig EXCEPT !.pos = product]
                /\ UNCHANGED products
    /\ UNCHANGED nextId

\* Lines 192-200: mark the current product as merged.
MigrateMark ==
    /\ mig.pc = "mark"
    /\ products' =
          IF products[mig.product].exists
          THEN [products EXCEPT
                  ![mig.product].mapping_status = "merged_into_parent",
                  ![mig.product].parent_id = mig.target]
          ELSE products
    /\ mig' = [mig EXCEPT !.pc = "cursor", !.product = 0, !.target = 0]
    /\ UNCHANGED nextId

\* Lines 202-205: the cursor is exhausted.
MigrateDone ==
    /\ mig.pc = "cursor"
    /\ MigrateRest = {}
    /\ mig' = MigIdle
    /\ UNCHANGED storeVars

\* The script is killed, or a write raises (migrate() catches nothing): it
\* stops where it is.  What is kept of its variables is the merge it was in.
MigrateKill ==
    /\ mig.pc \in {"cursor", "mark"}
    /\ mig' = [MigIdle EXCEPT !.pc = "killed", !.product = mig.product,
                              !.target = mig.target]
    /\ UNCHANGED storeVars

Migrate == MigrateStart \/ MigrateMerge \/ MigrateMark \/ MigrateDone \/ MigrateKill

(***************************************************************************)
(* ProductMapper.run_matching: the matching job over the store            *)
(***************************************************************************)
JobIdle == [pc |-> "idle", all_products |-> [i \in ProductIds |-> NoDoc],
            our_products |-> << >>, matched_id |-> 0, matched_product |-> NoDoc]

\* The number of distinct aggregators of a document (product_agg_counts).
AggCount(doc) == Cardinality(AggregatorsOf(doc.prices))

\* our_products: the documents with a price of ours, sorted by aggregator
\* count, highest first; the sort is stable, so ties stay in _id order.
RECURSIVE SortedOurs(_, _)
SortedOurs(db, ids) ==
    IF ids = {} THEN << >>
    ELSE LET best == CHOOSE i \in ids : \A j \in ids :
                        \/ AggCount(db[i]) > AggCount(db[j])
                        \/ AggCount(db[i]) = AggCount(db[j]) /\ i <= j
         IN  <<best>> \o SortedOurs(db, ids \ {best})

\* _score_candidate_enhanced, lines 826-832: a product that carries prices of
\* our own aggregator only is never a candidate.
IsPureOur(doc) == AggregatorsOf(doc.prices) = {OUR_COMPANY}

\* the products of the snapshot that are not pure products of ours, the
\* query among them
CandidatesWithSelf(all_products, product_id) ==
    {c \in ProductIds : all_products[c].exists /\ ~IsPureOur(all_products[c])}

\* The products _find_candidates_enhanced and _find_candidates_fallback can
\* return for a query product: products of the snapshot the indexes were
\* built from, never the query itself (pid != product_id), never a pure
\* product of ours.  Which of them score above the floor, and which one the
\* decision picks, depends on brands, weights and the oracle: inputs here.
Candidates(all_products, product_id) ==
    {c \in ProductIds : /\ all_products[c].exists
                        /\ c # product_id
                        /\ ~IsPureOur(all_products[c])}

\* _normalize_string and the keywords of _build_indexes, lines 499-500: the
\* words of the normalised name that are longer than two letters.
Keywords(name) ==
    IF normalize_text(name) = "coca cola" THEN {"coca", "cola"} ELSE {}

\* _build_indexes, lines 474-506, for the keyword index: each keyword of a
\* name points to the documents of the snapshot that carry it.
_build_indexes(all_products) ==
    [kw \in {"coca", "cola"} |->
        {i \in ProductIds : all_products[i].exists /\ kw \in Keywords(all_products[i].name)}]

\* the merged product taken out of the snapshot as it is taken out of the
\* store
SnapshotWithoutMerged(all_products, matched_id) ==
    [all_products EXCEPT ![matched_id] = NoDoc]

\* Lines 239-287: the merge reads and writes self.db.products only; the
\* list all_products the indexes point into is left as it was read.
SnapshotAfterMerge(all_products, matched_id) == all_products

\* Lines 245-263: merged_prices_map keyed by aggregator, existing prices first,
\* then the matched product's; the dict keeps a key's first position and its
\* last value.
RECURSIVE DedupByAggregator(_, _)
DedupByAggregator(prices, done) ==
    IF prices = << >> THEN << >>
    ELSE LET agg == Head(prices).aggregator
             same == SelectSeq(prices, LAMBDA p : p.aggregator = agg)
         IN  IF agg \in done THEN DedupByAggregator(Tail(prices), done)
             ELSE <<same[Len(same)]>> \o DedupByAggregator(Tail(prices), done \cup {agg})

MergePrices(existing_prices, new_prices) ==
    DedupByAggregator(existing_prices \o new_prices, {})

\* Lines 152-200: the status is reset, the corpus is read and indexed, our
\* products are read and sorted.
RunStart ==
    /\ job.pc \in {"idle", "interrupted"}
    /\ mig.pc \in {"idle", "killed"}
    /\ job' = [JobIdle EXCEPT !.pc = "loop", !.all_products = products,
                  !.our_products = SortedOurs(products, FindOurs(products))]
    /\ UNCHANGED storeVars

\* Lines 206-217 and 288-300: the next product is decided no_match, or the
\* decision raises and the error is counted; the store is left alone.
RunNoMatch ==
    /\ job.pc = "loop"
    /\ job.our_products # << >>
    /\ job' = [job EXCEPT !.our_products = Tail(@)]
    /\ UNCHANGED storeVars

\* Lines 218-241: the next product has candidates and is decided a match,
\* with one of them or (the oracle's answer is not checked against them) with
\* an id that resolves to nothing, written 0; the matched product is read
\* back from the store, where it may be gone since the snapshot.
RunMatch ==
    /\ job.pc = "loop"
    /\ job.our_products # << >>
    /\ LET candidates == Candidates(job.all_products, Head(job.our_products))
       IN  /\ candidates # {}
           /\ \E matched_id \in candidates \cup {0} :
                 job' = [job EXCEPT !.pc = "update", !.matched_id = matched_id,
                            !.matched_product =
                               IF matched_id \in ProductIds THEN products[matched_id]
                               ELSE NoDoc]
    /\ UNCHANGED storeVars

\* Lines 243-274 and 280-287: update_one on the query product.  The matched
\* product found, its prices are merged into the query product's (as read at
\* the start) and the product is marked matched; not found, the product is
\* only marked matched.
RunUpdate ==
    /\ job.pc = "update"
    /\ LET product == Head(job.our_products)
       IN  IF job.matched_product.exists
           THEN /\ products' =
                      IF products[product].exists
                      THEN [products EXCEPT
                              ![product].mapping_status = "matched",
                              ![product].prices =
                                  MergePrices(job.all_products[product].prices,
                                              job.matched_product.prices)]
                      ELSE products
                /\ job' = [job EXCEPT !.pc = "delete",
                              !.all_products =
                                  SnapshotAfterMerge(job.all_products, job.matched_id)]
           ELSE /\ products' =
                      IF products[product].exists
                      THEN [products EXCEPT ![product].mapping_status = "matched"]
                      ELSE products
                /\ job' = [job EXCEPT !.pc = "loop", !.matched_id = 0,
                                      !.matched_product = NoDoc,
                                      !.our_products = Tail(@)]
    /\ UNCHANGED nextId

\* Lines 276-279: the standalone matched product is removed.
RunDelete ==
    /\ job.pc = "delete"
    /\ products' = [products EXCEPT ![job.matched_id] = NoDoc]
    /\ job' = [job EXCEPT !.pc = "loop", !.matched_id = 0, !.matched_product = NoDoc,
                          !.our_products = Tail(@),
                          !.all_products =
                              SnapshotAfterMerge(job.all_products, job.matched_id)]
    /\ UNCHANGED nextId

\* Lines 297-300: a write raises; the error is counted and the loop goes on
\* with the next product.
RunWriteFails ==
    /\ job.pc \in {"update", "delete"}
    /\ job' = [job EXCEPT !.pc = "loop", !.matched_id = 0, !.matched_product = NoDoc,
                          !.our_products = Tail(@)]
    /\ UNCHANGED storeVars

\* Lines 314-317: every product was processed.
RunDone ==
    /\ job.pc = "loop"
    /\ job.our_products = << >>
    /\ job' = JobIdle
    /\ UNCHANGED storeVars

\* The job is interrupted at an await (the task is cancelled, the process
\* stops): it stops where it is.  What is kept of its variables is the
\* product it was at and the merge it was in.
RunInterrupt ==
    /\ job.pc \in {"loop", "update", "delete"}
    /\ job' = [JobIdle EXCEPT !.pc = "interrupted",
                              !.our_products = IF job.our_products = << >> THEN << >>
                                                ELSE <<Head(job.our_products)>>,
                              !.matched_id = IF job.pc = "delete" THEN job.matched_id ELSE 0]
    /\ UNCHANGED storeVars

RunMatching ==
    \/ RunStart \/ RunNoMatch \/ RunMatch \/ RunUpdate
    \/ RunDelete \/ RunWriteFails \/ RunDone \/ RunInterrupt

(***************************************************************************)
(* Starting the matching job: the run-matching endpoint, the scheduled    *)
(* import cycle and the MATCHING_STATUS flag they look at.                *)
(***************************************************************************)
\* run_matching calls ever requested
MaxRuns == 3
\* batches a run goes through at most
MaxBatches == 2
RunIds == 1..MaxRuns

VARIABLES MATCHING_STATUS, runs, response

guardVars == <<MATCHING_STATUS, runs, response>>

NoRun == [pc |-> "none", i |-> 0]
Running == {r \in RunIds : runs[r].pc = "running"}
Unused == {r \in RunIds : runs[r].pc = "none"}

\* POST /import/run-matching/: the flag is read; set, the answer is
\* already_running; clear, run_matching is added to the background tasks,
\* which start after the response is sent, and the answer is started.
run_product_matching ==
    IF MATCHING_STATUS.is_running
    THEN /\ response' = "already_running"
         /\ UNCHANGED <<MATCHING_STATUS, runs>>
    ELSE /\ Unused # {}
         /\ runs' = [runs EXCEPT ![Min(Unused)] = [pc |-> "queued", i |-> 0]]
         /\ response' = "started"
         /\ UNCHANGED MATCHING_STATUS

\* A background task begins run_matching: the flag is set and the counters
\* are reset.
BackgroundTaskStart ==
    \E r \in RunIds :
        /\ runs[r].pc = "queued"
        /\ runs' = [runs EXCEPT ![r] = [pc |-> "running", i |-> 0]]
        /\ MATCHING_STATUS' = [is_running |-> TRUE, processed |-> 0]
        /\ UNCHANGED response

\* The scheduled cycle after its import: the flag clear, it awaits
\* run_matching itself, whose first statement sets the flag (no suspension
\* point lies between the test and the assignment); the flag set, it skips.
_run_daily_import_cycle ==
    /\ ~MATCHING_STATUS.is_running
    /\ Unused # {}
    /\ runs' = [runs EXCEPT ![Min(Unused)] = [pc |-> "running", i |-> 0]]
    /\ MATCHING_STATUS' = [is_running |-> TRUE, processed |-> 0]
    /\ UNCHANGED response

\* One batch of a run is done: the shared progress counter is overwritten
\* with the run's own count.
RunBatch ==
    \E r \in Running :
        /\ runs[r].i < MaxBatches
        /\ runs' = [runs EXCEPT ![r].i = @ + 1]
        /\ MATCHING_STATUS' = [MATCHING_STATUS EXCEPT !.processed = runs[r].i + 1]
        /\ UNCHANGED response

\* A run reaches the end of its batches and clears the flag.
RunCompletes ==
    \E r \in Running :
        /\ runs' = [runs EXCEPT ![r].pc = "done"]
        /\ MATCHING_STATUS' = [MATCHING_STATUS EXCEPT !.is_running = FALSE]
        /\ UNCHANGED response

\* A run raises outside the per-product try (reading the store, building the
\* indexes): the flag is not cleared.
RunRaises ==
    \E r \in Running :
        /\ runs' = [runs EXCEPT ![r].pc = "failed"]
        /\ UNCHANGED <<MATCHING_STATUS, response>>

GuardInit ==
    /\ MATCHING_STATUS = [is_running |-> FALSE, processed |-> 0]
    /\ runs = [r \in RunIds |-> NoRun]
    /\ response = "none"

(***************************************************************************)
(* The decision for one product: ProductMapper._match_product and the     *)
(* oracle consultation ProductMapper._match_with_ai.                      *)
(***************************************************************************)
\* candidates scored for one product
MaxCandidates == 2
CandIds == 1..MaxCandidates

\* self.config of ProductMapper.__init__
match_threshold == 60
auto_match_threshold == 95
min_candidate_threshold == 25
\* the margin under match_threshold within which an oracle's match is kept
LeniencyMargin == 20

\* Scores before the cut at min_candidate_threshold and the cap at 100.
RawScores == {20, 25, 59, 60, 94, 95, 110}
\* What the oracle's JSON may say.
Verdicts == {"match", "no_match", "uncertain"}
Confidences == {0, 39, 40, 59, 60, 100}

VARIABLES dec

NoAnswer == [best_match |-> "none", match_confidence |-> 0, matched_uuid |-> 0,
             reason |-> ""]
\* raw: the scores the retrieval that supplied the candidates computed;
\* fallback_used: the indexed strategies found nothing and the brute-force
\* fallback was tried.
DecIdle == [pc |-> "idle", raw |-> [c \in CandIds |-> 0], fallback_used |-> FALSE,
            candidates |-> << >>, use_ai |-> FALSE, client |-> FALSE,
            oracle_calls |-> 0, answer |-> NoAnswer, result |-> NoAnswer]

\* every scored product kept, whatever its score
KeepEveryCandidate(raw, aggregator_count) ==
    {[id |-> c, score |-> IF raw[c] < 100 THEN raw[c] ELSE 100,
      aggregator_count |-> aggregator_count[c]] : c \in CandIds}

\* _score_candidate_enhanced, lines 899-908: a candidate is kept when its
\* score reaches min_candidate_threshold, with the score capped at 100.
ScoredCandidates(raw, aggregator_count) ==
    {[id |-> c, score |-> IF raw[c] < 100 THEN raw[c] ELSE 100,
      aggregator_count |-> aggregator_count[c]] :
        c \in {k \in CandIds : raw[k] >= min_candidate_threshold}}

\* The order of sorted(..., key=(score, aggregator_count), reverse=True);
\* the sort is stable, so equal keys keep the order of insertion (by id).
Before(c, d) ==
    \/ c.score > d.score
    \/ c.score = d.score /\ c.aggregator_count > d.aggregator_count
    \/ c.score = d.score /\ c.aggregator_count = d.aggregator_count /\ c.id < d.id

RECURSIVE SortedCandidates(_)
SortedCandidates(S) ==
    IF S = {} THEN << >>
    ELSE LET first == CHOOSE c \in S : \A d \in S \ {c} : Before(c, d)
         IN  <<first>> \o SortedCandidates(S \ {first})

\* confidence >= threshold - 20 without the margin
NoLeniency(confidence) == confidence >= match_threshold

\* Line 1045: confidence >= threshold - 20.
WithinLeniency(confidence) == confidence >= match_threshold - LeniencyMargin

\* score > auto_match_threshold, the threshold itself left out
AboveAutoMatch(top_candidate) == top_candidate.score > auto_match_threshold

\* Line 568: top_candidate['score'] >= self.config['auto_match_threshold'].
IsAutoMatch(top_candidate) == top_candidate.score >= auto_match_threshold

\* _match_with_ai, lines 1037-1065, on the oracle's parsed answer.
_match_with_ai(answer) ==
    LET confidence == answer.match_confidence
        asserted == answer.best_match = "match"
        normal == asserted /\ confidence >= match_threshold
        force_match == asserted /\ ~normal /\ WithinLeniency(confidence)
        best_match == IF asserted /\ ~normal /\ ~force_match THEN "no_match"
                      ELSE answer.best_match
    IN  [best_match |-> IF force_match THEN "match" ELSE best_match,
         match_confidence |-> confidence,
         matched_uuid |-> answer.matched_uuid,
         reason |-> answer.reason]

\* a no_match that blames the top candidate's score
BelowThresholdResult ==
    [best_match |-> "no_match", match_confidence |-> 0, matched_uuid |-> 0,
     reason |-> "below_threshold"]

\* Lines 555-563: the result when no candidate was found.
NoCandidatesResult ==
    [best_match |-> "no_match", match_confidence |-> 0, matched_uuid |-> 0,
     reason |-> "no_candidates"]

\* the oracle's failure handed on as a match on nothing
OracleErrorAsMatch ==
    [best_match |-> "match", match_confidence |-> 0, matched_uuid |-> 0,
     reason |-> "oracle_error"]

\* Lines 1067-1076: the result when the oracle call raised.
OracleErrorResult ==
    [best_match |-> "no_match", match_confidence |-> 0, matched_uuid |-> 0,
     reason |-> "oracle_error"]

\* run_matching, lines 218 and 288-289: a result is a match when its
\* best_match is 'match', and counted as no_match otherwise.
Decision(match_result) ==
    IF match_result.best_match = "match" THEN "match" ELSE "no_match"

\* Lines 548-553: _match_product is entered for a product: its candidates
\* are found, scored and sorted by the indexed strategies and, when these
\* find none (enable_fallback is set), by the brute-force fallback.
MatchStart ==
    /\ dec.pc = "idle"
    /\ \E raw \in [CandIds -> RawScores], fallback_raw \in [CandIds -> RawScores],
          aggregator_count \in [CandIds -> 1..2],
          use_ai \in BOOLEAN, client \in BOOLEAN :
          LET candidates == ScoredCandidates(raw, aggregator_count)
              fallback == ScoredCandidates(fallback_raw, aggregator_count)
          IN  dec' = [DecIdle EXCEPT
                        !.pc = "scored",
                        !.raw = IF candidates # {} THEN raw ELSE fallback_raw,
                        !.fallback_used = (candidates = {}),
                        !.candidates =
                            SortedCandidates(IF candidates # {} THEN candidates
                                             ELSE fallback),
                        !.use_ai = use_ai, !.client = client]

\* Lines 555-563: no candidates.
MatchNoCandidates ==
    /\ dec.pc = "scored"
    /\ dec.candidates = << >>
    /\ dec' = [dec EXCEPT !.pc = "decided", !.result = NoCandidatesResult]

\* Lines 565-577: the top candidate is matched without the oracle.
MatchAuto ==
    /\ dec.pc = "scored"
    /\ dec.candidates # << >>
    /\ IsAutoMatch(dec.candidates[1])
    /\ dec' = [dec EXCEPT !.pc = "decided",
                 !.result = [best_match |-> "match",
                             match_confidence |->
                                 IF dec.candidates[1].score < 99
                                 THEN dec.candidates[1].score ELSE 99,
                             matched_uuid |-> dec.candidates[1].id,
                             reason |-> "auto_match"]]

\* Lines 579-581 and 1016-1032: the oracle is called.
MatchConsult ==
    /\ dec.pc = "scored"
    /\ dec.candidates # << >>
    /\ ~IsAutoMatch(dec.candidates[1])
    /\ dec.use_ai /\ dec.client
    /\ dec' = [dec EXCEPT !.pc = "oracle", !.oracle_calls = @ + 1]

\* Lines 1034-1065: the oracle answers with a JSON object.
OracleAnswers ==
    /\ dec.pc = "oracle"
    /\ \E best_match \in Verdicts, match_confidence \in Confidences,
          matched_uuid \in CandIds \cup {0} :
          LET answer == [best_match |-> best_match,
                         match_confidence |-> match_confidence,
                         matched_uuid |-> matched_uuid,
                         reason |-> "oracle"]
          IN  dec' = [dec EXCEPT !.pc = "decided", !.answer = answer,
                         !.result = _match_with_ai(answer)]

\* Lines 1067-1076: the call or the parsing of its answer raises.
OracleRaises ==
    /\ dec.pc = "oracle"
    /\ dec' = [dec EXCEPT !.pc = "decided",
                 !.answer = [NoAnswer EXCEPT !.best_match = "error"],
                 !.result = OracleErrorResult]

\* Lines 583-602: without the oracle the top candidate decides.
MatchFallback ==
    /\ dec.pc = "scored"
    /\ dec.candidates # << >>
    /\ ~IsAutoMatch(dec.candidates[1])
    /\ ~(dec.use_ai /\ dec.client)
    /\ dec' = [dec EXCEPT !.pc = "decided",
                 !.result =
                    IF dec.candidates[1].score >= match_threshold
                    THEN [best_match |-> "match",
                          match_confidence |-> dec.candidates[1].score,
                          matched_uuid |-> dec.candidates[1].id,
                          reason |-> "top_candidate"]
                    ELSE [best_match |-> "no_match",
                          match_confidence |-> dec.candidates[1].score,
                          matched_uuid |-> 0,
                          reason |-> "below_threshold"]]

\* The decision is handed back and the next product can be decided.
MatchReturn ==
    /\ dec.pc = "decided"
    /\ dec' = DecIdle

(***************************************************************************)
(* The batch: the loop of ProductMapper.run_matching over our products,   *)
(* its counters, and the pacing of the oracle calls.                      *)
(***************************************************************************)
\* our products a run goes through
MaxListings == 2
\* the batch_size a run is started with, at most
MaxBatchSize == 2

VARIABLES bat

NoResults == [matched |-> 0, no_match |-> 0, errors |-> 0]
\* oracle_failures and failures count what happened (oracle calls that
\* failed; exceptions raised while deciding or merging a product); delayed
\* tells whether a sleep has elapsed since the last oracle call was issued.
\* batch_size and in_batch: the size of the batches and the products of the
\* current batch that were gone through; status: the counters of
\* MATCHING_STATUS, lines 92-100, which the progress endpoint returns.
NoStatus == [processed |-> 0, matched |-> 0, errors |-> 0, total |-> 0]
BatIdle == [pc |-> "idle", total |-> 0, remaining |-> 0, results |-> NoResults,
            match_result |-> NoAnswer, oracle_calls |-> 0, oracle_failures |-> 0,
            failures |-> 0, delayed |-> FALSE,
            batch_size |-> 1, in_batch |-> 0, status |-> NoStatus]

\* Results _match_product reaches without the oracle.
AutoMatchResult ==
    [best_match |-> "match", match_confidence |-> 99, matched_uuid |-> 1,
     reason |-> "auto_match"]
DirectResults == {NoCandidatesResult, AutoMatchResult, BelowThresholdResult}

\* the exception leaves run_matching
Propagates == "raised"

\* Lines 297-300: except Exception inside the loop; the loop goes on.
AfterFailure == "loop"

\* the sleep left out when the call raised
SleepAfterAnswerOnly(outcome) == IF outcome = "raised" THEN "record" ELSE "sleep"

\* Lines 1078-1080: finally: await asyncio.sleep(delay_ms / 1000), whatever
\* the outcome of the call.
AfterOracle(outcome) == "sleep"

\* Lines 152-158: the run resets the live counters, but for total.
BatchStart ==
    /\ bat.pc = "idle"
    /\ \E batch_size \in 1..MaxBatchSize :
          bat' = [BatIdle EXCEPT !.pc = "reading", !.batch_size = batch_size,
                     !.status = [bat.status EXCEPT !.processed = 0, !.matched = 0,
                                                   !.errors = 0]]

\* Lines 160-200: the run reads our products and sets up its report and the
\* live total.
BatchRead ==
    /\ bat.pc = "reading"
    /\ \E n \in 0..MaxListings :
          bat' = [bat EXCEPT !.pc = "loop", !.total = n, !.remaining = n,
                    !.status.total = n]

\* Lines 206-216: the product is decided without the oracle.
ListingDecided ==
    /\ bat.pc = "loop" /\ bat.remaining > 0 /\ bat.in_batch < bat.batch_size
    /\ \E match_result \in DirectResults :
          bat' = [bat EXCEPT !.pc = "record", !.match_result = match_result]

\* Lines 206-216 and 297-300: deciding the product raises.
ListingRaises ==
    /\ bat.pc = "loop" /\ bat.remaining > 0 /\ bat.in_batch < bat.batch_size
    /\ bat' = [bat EXCEPT !.pc = AfterFailure, !.remaining = @ - 1,
                 !.in_batch = @ + 1,
                 !.results.errors = @ + 1, !.status.errors = @ + 1,
                 !.failures = @ + 1]

\* Lines 579-581 and 1016-1032: the oracle is called for the product.
ListingConsults ==
    /\ bat.pc = "loop" /\ bat.remaining > 0 /\ bat.in_batch < bat.batch_size
    /\ bat' = [bat EXCEPT !.pc = "oracle", !.oracle_calls = @ + 1,
                 !.delayed = FALSE]

\* Lines 1034-1065: the oracle answers.
BatchOracleAnswers ==
    /\ bat.pc = "oracle"
    /\ \E best_match \in {"match", "no_match"} :
          bat' = [bat EXCEPT
                    !.pc = AfterOracle("answered"),
                    !.match_result =
                        _match_with_ai([best_match |-> best_match,
                                        match_confidence |-> match_threshold,
                                        matched_uuid |-> 1, reason |-> "oracle"])]

\* Lines 1067-1076: the oracle call fails and is turned into a no_match.
BatchOracleFails ==
    /\ bat.pc = "oracle"
    /\ bat' = [bat EXCEPT !.pc = AfterOracle("raised"),
                 !.match_result = OracleErrorResult,
                 !.oracle_failures = @ + 1]

\* Lines 1078-1080: the delay after the call.
OracleDelay ==
    /\ bat.pc = "sleep"
    /\ bat' = [bat EXCEPT !.pc = "record", !.delayed = TRUE]

\* Lines 288-295: a result that is not a match is counted no_match.
RecordNoMatch ==
    /\ bat.pc = "record"
    /\ Decision(bat.match_result) = "no_match"
    /\ bat' = [bat EXCEPT !.pc = "loop", !.remaining = @ - 1,
                 !.in_batch = @ + 1,
                 !.results.no_match = @ + 1]

\* Lines 218-229: a match is counted before it is merged.
RecordMatch ==
    /\ bat.pc = "record"
    /\ Decision(bat.match_result) = "match"
    /\ bat' = [bat EXCEPT !.pc = "merge", !.results.matched = @ + 1,
                 !.status.matched = @ + 1]

\* Lines 231-287: the writes of the merge go through.
MergeDone ==
    /\ bat.pc = "merge"
    /\ bat' = [bat EXCEPT !.pc = "loop", !.remaining = @ - 1, !.in_batch = @ + 1]

\* Lines 231-287 and 297-300: a write of the merge raises.
MergeRaises ==
    /\ bat.pc = "merge"
    /\ bat' = [bat EXCEPT !.pc = AfterFailure, !.remaining = @ - 1,
                 !.in_batch = @ + 1,
                 !.results.errors = @ + 1, !.status.errors = @ + 1,
                 !.failures = @ + 1]

\* Lines 302-312: the batch is through; processed is set to
\* min(i + batch_size, len(our_products)), i the index the batch began at.
BatchProgress ==
    /\ bat.pc = "loop"
    /\ bat.in_batch > 0
    /\ bat.in_batch = bat.batch_size \/ bat.remaining = 0
    /\ LET i == bat.total - bat.remaining - bat.in_batch
       IN  bat' = [bat EXCEPT !.in_batch = 0,
                     !.status.processed = Min({i + bat.batch_size, bat.total})]

\* Lines 314-317: the loop is over and the report is returned.
BatchEnd ==
    /\ bat.pc = "loop" /\ bat.remaining = 0 /\ bat.in_batch = 0
    /\ bat' = [bat EXCEPT !.pc = "done"]

\* The caller has the report; another run can start. MATCHING_STATUS is a
\* global of the module and keeps its counters.
BatchReturn ==
    /\ bat.pc = "done"
    /\ bat' = [BatIdle EXCEPT !.status = bat.status]

(***************************************************************************)
(* The review pass: MappingReviewService.review_mapped_items over mapped  *)
(* items, against the store the importer filled.                          *)
(***************************************************************************)
\* items of one review pass
MaxReviewItems == 2

\* ReviewConfig, as percents of SequenceMatcher's ratio
name_ok_threshold == 75
name_strict_threshold == 85
name_low_threshold == 45

VARIABLES rev

ReviewTitles == Names \cup {"Pepsi"}
\* A matched_uuid is the string of an ObjectId (oid, 0 when it is none), an
\* external id (external_id, "" when it is none), or missing (both none).
MatchedUuids ==
    {[oid |-> 0, external_id |-> ""]}
       \cup {[oid |-> i, external_id |-> ""] : i \in ProductIds}
       \cup {[oid |-> 0, external_id |-> n] : n \in Names}
MappedItems == [matched_uuid : MatchedUuids, title : ReviewTitles]

NoSummary == [total |-> 0, correct |-> 0, needs_review |-> 0, likely_wrong |-> 0,
              unmapped |-> 0, not_found |-> 0]
\* items: the mapped items the pass has taken from its input so far;
\* results: the list of results it has built.
RevIdle == [pc |-> "idle", remaining |-> 0, matched_aggregator |-> "",
            summary |-> NoSummary, items |-> << >>, results |-> << >>]

\* _normalize_text and _similarity, lines 245-253, on the titles at hand:
\* lower case keeps the hyphen, so the two spellings differ in one character
\* of nine.
_similarity(a, b) ==
    CASE a = b -> 100
      [] {a, b} = {"Coca-Cola", "coca cola"} -> 88
      [] OTHER -> 0

\* Lines 98-148: the product a matched_uuid resolves to, 0 when none: by
\* _id, then by a price's external_id under matched_aggregator, then under
\* any aggregator (price entries carry no matched_uuid here).
_find_matched_product(db, matched_uuid, matched_aggregator) ==
    LET by_id == {i \in ProductIds : db[i].exists /\ i = matched_uuid.oid}
        holds(i, any) ==
            /\ db[i].exists
            /\ \E k \in 1..Len(db[i].prices) :
                  /\ db[i].prices[k].external_id = matched_uuid.external_id
                  /\ any \/ matched_aggregator = ""
                         \/ db[i].prices[k].aggregator = matched_aggregator
        by_aggregator == {i \in ProductIds : holds(i, FALSE)}
        by_external_id == {i \in ProductIds : holds(i, TRUE)}
    IN  IF by_id # {} THEN Min(by_id)
        ELSE IF by_aggregator # {} THEN Min(by_aggregator)
        ELSE IF by_external_id # {} THEN Min(by_external_id)
        ELSE 0

\* _evaluate_match, lines 150-212, for items and products without brand and
\* weight (brand_match is False, the weights are unknown): the name score
\* decides.
_evaluate_match(item, matched_product) ==
    LET name_score == _similarity(item.title, matched_product.name)
        brand_match == FALSE
    IN  IF name_score >= name_strict_threshold THEN "correct"
        ELSE IF name_score >= name_ok_threshold THEN "correct"
        ELSE IF name_score <= name_low_threshold THEN "likely_wrong"
        ELSE IF brand_match THEN "needs_review"
        ELSE "likely_wrong"

\* Lines 54-90: the verdict on one item.
Verdict(db, item, matched_aggregator) ==
    LET matched == _find_matched_product(db, item.matched_uuid, matched_aggregator)
    IN  IF item.matched_uuid = [oid |-> 0, external_id |-> ""] THEN "unmapped"
        ELSE IF matched = 0 THEN "not_found"
        ELSE _evaluate_match(item, db[matched])

\* the verdict written on the matched product
StoreWithVerdict(db, matched, verdict) ==
    IF matched \in ProductIds
    THEN [db EXCEPT ![matched].mapping_status = verdict]
    ELSE db

\* Lines 54-90: what the pass writes to db.products for an item: nothing
\* (find_one is the only call on the store).
StoreAfterReview(db, matched, verdict) == db

\* the item counted in total only when its product is not found
CountedUnlessNotFound(summary, verdict) ==
    IF verdict = "not_found" THEN [summary EXCEPT !.total = @ + 1]
    ELSE [summary EXCEPT !.total = @ + 1, ![verdict] = @ + 1]

\* Lines 55-56, 60, 70 and 82: the item is counted in total and under its
\* verdict.
Counted(summary, verdict) ==
    [summary EXCEPT !.total = @ + 1, ![verdict] = @ + 1]

\* _build_result, lines 214-245: the verdict, the source item and the id
\* of the matched product (0 for None).
_build_result(source_item, verdict, matched_product) ==
    [verdict |-> verdict, source |-> source_item, matched |-> matched_product]

\* Lines 39-52: a pass begins over a list of items.
ReviewStart ==
    /\ rev.pc = "idle"
    /\ \E n \in 0..MaxReviewItems, matched_aggregator \in Aggregators \cup {""} :
          rev' = [RevIdle EXCEPT !.pc = "items", !.remaining = n,
                     !.matched_aggregator = matched_aggregator]
    /\ UNCHANGED storeVars

\* Lines 54-90: one item is looked up, judged and counted.
ReviewItem ==
    /\ rev.pc = "items" /\ rev.remaining > 0
    /\ \E item \in MappedItems :
          LET verdict == Verdict(products, item, rev.matched_aggregator)
              matched == _find_matched_product(products, item.matched_uuid,
                                               rev.matched_aggregator)
          IN  /\ rev' = [rev EXCEPT !.remaining = @ - 1,
                            !.summary = Counted(@, verdict),
                            !.items = Append(@, item),
                            !.results =
                                Append(@, _build_result(item, verdict,
                                    IF verdict = "unmapped" THEN 0 ELSE matched))]
              /\ products' = StoreAfterReview(products, matched, verdict)
    /\ UNCHANGED nextId

\* Lines 92-95: summary and results are returned.
ReviewReturn ==
    /\ rev.pc = "items" /\ rev.remaining = 0
    /\ rev' = RevIdle
    /\ UNCHANGED storeVars

(***************************************************************************)
(* The scorer: ProductMapper._score_candidate_enhanced on the signals of  *)
(* one candidate.                                                         *)
(***************************************************************************)
\* synonym groups a product and a candidate share
MaxSynonyms == 3
\* aggregators a candidate carries prices of
MaxAggregatorCount == 4

VARIABLES sc

BrandSignals == {"none", "exact", "translit", "similar"}
WeightSignals == {"none", "exact", "close"}
\* _word_overlap_score, in percent
WordOverlaps == {0, 50, 100}
\* The boosts the strategies pass (20, 10, shared_synonyms * 15, 15 or 5,
\* hit_count * 8, int(similarity * 25), overlap * 5, 15, int(ratio * 10)).
Boosts == {0, 5, 10, 15, 20, 30, 45}
Signals == [brand : BrandSignals, weight : WeightSignals, word_overlap : WordOverlaps,
            shared_synonyms : 0..MaxSynonyms, aggregator_count : 1..MaxAggregatorCount,
            boost : Boosts]

ScIdle == [pc |-> "idle",
           signals |-> [brand |-> "none", weight |-> "none", word_overlap |-> 0,
                        shared_synonyms |-> 0, aggregator_count |-> 1, boost |-> 0],
           score |-> -1]

\* points for any brand but the exact one
InvertedBrandPoints(brand) == IF brand = "exact" THEN 0 ELSE 30

\* Lines 848-863: brand matching.
BrandPoints(brand) ==
    CASE brand = "exact" -> 30
      [] brand = "translit" -> 28
      [] brand = "similar" -> 20
      [] OTHER -> 0

\* Lines 865-876: weight matching.
WeightPoints(weight) ==
    CASE weight = "exact" -> 35
      [] weight = "close" -> 25
      [] OTHER -> 0

\* Lines 878-882: int(word_overlap * 25).
TitlePoints(word_overlap) == (word_overlap * 25) \div 100

\* Lines 884-888: min(shared_synonyms * 10, 20).
SynonymPoints(shared_synonyms) ==
    IF shared_synonyms * 10 < 20 THEN shared_synonyms * 10 ELSE 20

\* Lines 890-894: min(aggregator_count * 3, 10) for more than one aggregator.
AggregatorPoints(aggregator_count) ==
    IF aggregator_count > 1
    THEN (IF aggregator_count * 3 < 10 THEN aggregator_count * 3 ELSE 10)
    ELSE 0

\* Lines 845-897: the sum of the signals and the strategy's boost.
RawScore(signals) ==
    BrandPoints(signals.brand) + WeightPoints(signals.weight)
       + TitlePoints(signals.word_overlap) + SynonymPoints(signals.shared_synonyms)
       + AggregatorPoints(signals.aggregator_count) + signals.boost

\* the score as it was summed
NoClamp(score) == score

\* Line 905: min(score, 100).
Clamp(score) == IF score < 100 THEN score ELSE 100

TotalScore(signals) == Clamp(RawScore(signals))

\* Lines 899-908: the score stored for the candidate, -1 when the candidate
\* is dropped.
_score_candidate_enhanced(signals) ==
    IF RawScore(signals) >= min_candidate_threshold THEN TotalScore(signals) ELSE -1

\* A candidate is scored.
ScoreCandidate ==
    /\ sc.pc = "idle"
    /\ \E signals \in Signals :
          sc' = [pc |-> "scored", signals |-> signals,
                 score |-> _score_candidate_enhanced(signals)]

\* The next candidate can be scored.
ScoreNext ==
    /\ sc.pc = "scored"
    /\ sc' = ScIdle

(***************************************************************************)
(* Weight extraction: DataImporter._parse_product and _extract_weight on  *)
(* an aggregator's record, and ProductMapper._extract_weight on the       *)
(* product document the importer stored.                                  *)
(***************************************************************************)
\* tokens of a text
MaxTextLen == 2

\* A text is a sequence of blank-separated tokens: a multiplier ("2 x"), a
\* quantity (a number and a unit; the number is kept in thousandths, so that
\* 0.5 is 500 and 500 is 500000) or a word. Cyrillic units and words are
\* written in Latin letters with the suffix _cyr: g_cyr, kg_cyr, l_cyr,
\* ml_cyr, litr_cyr, sht_cyr (pieces) and the word sok_cyr (juice).
Units == {"g_cyr", "kg_cyr", "l_cyr", "ml", "sht_cyr"}
Words == {"sok_cyr", "cola"}
Numbers == {500, 500000}
Tokens ==
    {[kind |-> "mul", value |-> 2, text |-> "x"]}
    \cup {[kind |-> "qty", value |-> v, text |-> u] : v \in Numbers, u \in Units}
    \cup {[kind |-> "word", value |-> 0, text |-> w] : w \in Words}
Texts == UNION {[1..n -> Tokens] : n \in 0..MaxTextLen}
\* what a dedicated quantity field holds: nothing, or one token
FieldTexts == {t \in Texts : Len(t) <= 1}

VARIABLES wx

NoWeight == [value |-> 0, unit |-> "none"]
NoRecord == [title |-> << >>, product_name |-> << >>, weight |-> << >>]
WxIdle == [pc |-> "idle", data |-> NoRecord,
           product |-> [name |-> << >>, weight_value |-> 0, weight_unit |-> "none"],
           weight |-> 0]

\* The first quantity token of a text whose unit is in the vocabulary of the
\* regular expression searched; 0 when there is none.
FirstQuantity(text, vocabulary) ==
    LET found == {i \in 1..Len(text) :
                     text[i].kind = "qty" /\ text[i].text \in vocabulary}
    IN  IF found = {} THEN 0 ELSE Min(found)

\* data_importer.py, lines 489-496: re.search of a number, an x and blanks;
\* the multiplier token has to be followed by more text.
Multiplier(source) ==
    LET found == {i \in 1..(Len(source) - 1) : source[i].kind = "mul"}
    IN  IF found = {} THEN 1 ELSE source[Min(found)].value

\* data_importer.py, line 510: unit_map.get(unit, unit).
unit_map(unit) ==
    CASE unit = "g_cyr" -> "g"
      [] unit = "kg_cyr" -> "kg"
      [] unit = "l_cyr" -> "l"
      [] unit = "ml_cyr" -> "ml"
      [] unit = "sht_cyr" -> "pcs"
      [] OTHER -> unit

\* data_importer.py, lines 485-515: what one source yields.
ExtractFromSource(source) ==
    LET i == FirstQuantity(source, {"g_cyr", "kg_cyr", "l_cyr", "ml_cyr", "g", "kg", "l", "ml", "sht_cyr", "pcs"})
    IN  IF i = 0 THEN NoWeight
        ELSE [value |-> source[i].value * Multiplier(source),
              unit |-> unit_map(source[i].text)]

\* data_importer.py, lines 476-483: weight_sources, in the order they are
\* tried (data has no 'name', 'volume', 'measure' or rawData here).
weight_sources(data) == <<data.title, data.weight>>

\* DataImporter._extract_weight, lines 472-517: the first source that
\* yields a quantity decides.
DataImporter_extract_weight(data) ==
    LET sources == weight_sources(data)
        yielding == {i \in 1..Len(sources) : ExtractFromSource(sources[i]) # NoWeight}
    IN  IF yielding = {} THEN NoWeight
        ELSE ExtractFromSource(sources[Min(yielding)])

\* DataImporter._parse_product, lines 367-372 and 421-424, and the new
\* document of _process_batch, lines 320-334.
_parse_product(data) ==
    LET w == DataImporter_extract_weight(data)
    IN  [name |-> IF data.title # << >> THEN data.title ELSE data.product_name,
         weight_value |-> w.value, weight_unit |-> w.unit]

\* product_mapper.py, lines 381-389: multipliers.get(unit_key, 1).
multipliers(unit_key) ==
    IF unit_key \in {"kg", "kg_cyr", "l", "l_cyr", "litr_cyr"} THEN 1000 ELSE 1

\* product_mapper.py, lines 363-369: the unit is read from the ten
\* characters that follow the matched quantity.
UnitOfRemaining(remaining) ==
    IF \E i \in 1..Len(remaining) :
          remaining[i].kind = "qty" /\ remaining[i].text \in {"kg_cyr", "kg"}
    THEN "kg"
    ELSE IF \E i \in 1..Len(remaining) :
               remaining[i].text \in {"l_cyr", "ml_cyr", "l", "ml", "cola"}
         THEN "l"
         ELSE "g"

\* ProductMapper._extract_weight, lines 343-389; None is 0. The second
\* pattern (gr_cyr, litr_cyr) finds nothing the first has not found in these texts.
ProductMapper_extract_weight(product) ==
    IF product.weight_value # 0
    THEN product.weight_value * multipliers(product.weight_unit)
    ELSE LET name == product.name
             i == FirstQuantity(name, {"g_cyr", "kg_cyr", "l_cyr", "ml_cyr", "g", "kg", "l", "ml"})
         IN  IF i = 0 THEN 0
             ELSE name[i].value
                    * multipliers(UnitOfRemaining(SubSeq(name, i + 1, Len(name))))

\* A record of an aggregator's file is parsed and stored as a new product.
\* The name is under 'title' or under 'product_name'.
ParseProduct ==
    /\ wx.pc = "idle"
    /\ \E text \in Texts \ {<< >>}, weight \in FieldTexts, titled \in BOOLEAN :
          LET data == [title |-> IF titled THEN text ELSE << >>,
                       product_name |-> IF titled THEN << >> ELSE text,
                       weight |-> weight]
          IN  wx' = [WxIdle EXCEPT !.pc = "imported", !.data = data,
                        !.product = _parse_product(data)]

\* The matching run reads the weight of the stored product.
MapperExtractsWeight ==
    /\ wx.pc = "imported"
    /\ wx' = [wx EXCEPT !.pc = "extracted",
                !.weight = ProductMapper_extract_weight(wx.product)]

\* The next record.
WeightNext ==
    /\ wx.pc = "extracted"
    /\ wx' = WxIdle

(***************************************************************************)
(* Candidate retrieval for one query product:                             *)
(* ProductMapper._find_candidates_enhanced, its eight strategies writing  *)
(* into one dict of candidates through _score_candidate_enhanced.         *)
(***************************************************************************)
Strategies == 1..8
\* What a candidate scores before the boost of the strategy that reached it.
BaseScores == {5, 20, 90}

\* The boost each strategy passes: 20; 10; shared_synonyms * 15; 15 or 5;
\* hit_count * 8; int(similarity * 25) for a similarity above 0.7;
\* overlap * 5 for an overlap of 2 or more; 15.
StrategyBoosts(k) ==
    CASE k = 1 -> {20}
      [] k = 2 -> {10}
      [] k = 3 -> {15, 30}
      [] k = 4 -> {5, 15}
      [] k = 5 -> {8, 16}
      [] k = 6 -> {18, 25}
      [] k = 7 -> {10, 15}
      [] k = 8 -> {15}

\* Strategies 1, 2, 6 and 8 go by the brand of the query product; strategy 7
\* runs when it has none; 3, 4 and 5 run either way.
StrategyRuns(k, has_brand) ==
    CASE k \in {1, 2, 6, 8} -> has_brand
      [] k = 7 -> ~has_brand
      [] OTHER -> TRUE

\* Lines 752 and 792: strategies 6 and 8 pass by a product that is in
\* candidates already (pid not in candidates).
SkipsKnown(k) == k \in {6, 8}

VARIABLES fc

\* base, aggregator_count: what the scorer finds for each product; scored:
\* the products the current strategy has scored; candidates: the dict, as
\* the list of its values in insertion order; last_ok: for each product the
\* score of the last scoring that reached min_candidate_threshold, -1 when
\* there was none; last_low: the latest scoring of the product fell under
\* the threshold; returned: the list handed back.
FcIdle == [pc |-> "idle", strategy |-> 0, has_brand |-> FALSE,
           base |-> [c \in CandIds |-> 0],
           aggregator_count |-> [c \in CandIds |-> 1],
           max_candidates |-> 1, scored |-> {}, candidates |-> << >>,
           last_ok |-> [c \in CandIds |-> -1],
           last_low |-> [c \in CandIds |-> FALSE], returned |-> << >>]

KnownIds(candidates) == {candidates[i].id : i \in 1..Len(candidates)}

\* the entry of a product is written once and kept
KeepFirstEntry(candidates, cand_id, score, aggregator_count) ==
    IF score >= min_candidate_threshold /\ cand_id \notin KnownIds(candidates)
    THEN Append(candidates, [id |-> cand_id, score |-> IF score < 100 THEN score ELSE 100,
                             aggregator_count |-> aggregator_count])
    ELSE candidates

\* Lines 896-908: a score that reaches min_candidate_threshold is written
\* under the product's id, capped at 100; a dict keeps the place of a key it
\* holds already and takes the new value.
StoreCandidate(candidates, cand_id, score, aggregator_count) ==
    LET entry == [id |-> cand_id, score |-> IF score < 100 THEN score ELSE 100,
                  aggregator_count |-> aggregator_count]
    IN  IF score < min_candidate_threshold THEN candidates
        ELSE IF cand_id \in KnownIds(candidates)
        THEN [i \in 1..Len(candidates) |->
                 IF candidates[i].id = cand_id THEN entry ELSE candidates[i]]
        ELSE Append(candidates, entry)

\* Lines 804-808: sorted(candidates.values(), key=(score, aggregator_count),
\* reverse=True); the sort is stable, so entries with equal keys keep their
\* order.
RECURSIVE SortedByScore(_)
SortedByScore(entries) ==
    IF entries = << >> THEN << >>
    ELSE LET n == Len(entries)
             first == CHOOSE i \in 1..n : \A j \in (1..n) \ {i} :
                         \/ entries[i].score > entries[j].score
                         \/ /\ entries[i].score = entries[j].score
                            /\ entries[i].aggregator_count > entries[j].aggregator_count
                         \/ /\ entries[i].score = entries[j].score
                            /\ entries[i].aggregator_count = entries[j].aggregator_count
                            /\ i < j
         IN  <<entries[first]>>
                \o SortedByScore(SubSeq(entries, 1, first - 1)
                                    \o SubSeq(entries, first + 1, n))

\* Lines 620-630: the finder is entered for a query product; the config
\* gives max_candidates.
FindStart ==
    /\ fc.pc = "idle"
    /\ \E base \in [CandIds -> BaseScores], aggregator_count \in [CandIds -> {1, 3}],
          has_brand \in BOOLEAN, max_candidates \in 1..MaxCandidates :
          fc' = [FcIdle EXCEPT !.pc = "strategies", !.strategy = 1,
                    !.has_brand = has_brand, !.base = base,
                    !.aggregator_count = aggregator_count,
                    !.max_candidates = max_candidates]

\* Lines 632-802: the current strategy reaches a product and has it scored.
StrategyScores ==
    /\ fc.pc = "strategies"
    /\ fc.strategy \in Strategies
    /\ StrategyRuns(fc.strategy, fc.has_brand)
    /\ \E c \in CandIds \ fc.scored, boost \in StrategyBoosts(fc.strategy) :
          LET score == fc.base[c] + boost
          IN  /\ SkipsKnown(fc.strategy) => c \notin KnownIds(fc.candidates)
              /\ fc' = [fc EXCEPT
                          !.scored = @ \cup {c},
                          !.candidates =
                              StoreCandidate(@, c, score, fc.aggregator_count[c]),
                          !.last_ok[c] =
                              IF score >= min_candidate_threshold THEN score ELSE @,
                          !.last_low[c] = (score < min_candidate_threshold)]

\* The current strategy is through (or does not run); the next one begins.
NextStrategy ==
    /\ fc.pc = "strategies"
    /\ fc.strategy \in Strategies
    /\ fc' = [fc EXCEPT !.strategy = @ + 1, !.scored = {}]

\* Lines 804-814: the candidates are sorted, cut to max_candidates and
\* returned.
FindReturn ==
    /\ fc.pc = "strategies"
    /\ fc.strategy \notin Strategies
    /\ LET sorted_candidates == SortedByScore(fc.candidates)
       IN  fc' = [fc EXCEPT !.pc = "returned",
                     !.returned = SubSeq(sorted_candidates, 1,
                                         Min({fc.max_candidates, Len(sorted_candidates)}))]

\* The next query product.
FindNext ==
    /\ fc.pc = "returned"
    /\ fc' = FcIdle

(***************************************************************************)
(* The specifications.                                                    *)
(***************************************************************************)
vars == <<products, nextId, mig, job, MATCHING_STATUS, runs, response, dec, bat, rev, sc, wx, fc>>

StoreInit ==
    /\ products = [i \in ProductIds |-> NoDoc]
    /\ nextId = 1
    /\ mig = MigIdle
    /\ job = JobIdle

Init ==
    /\ StoreInit /\ GuardInit
    /\ dec = DecIdle /\ bat = BatIdle /\ rev = RevIdle /\ sc = ScIdle /\ wx = WxIdle /\ fc = FcIdle

\* The store with its writers.
Next ==
    \/ Import /\ UNCHANGED <<mig, job, guardVars, dec, bat, rev, sc, wx, fc>>
    \/ Migrate /\ UNCHANGED <<job, guardVars, dec, bat, rev, sc, wx, fc>>
    \/ RunMatching /\ UNCHANGED <<mig, guardVars, dec, bat, rev, sc, wx, fc>>

Spec == Init /\ [][Next]_vars

\* The starts of the matching job.
NextGuard ==
    \/ run_product_matching /\ UNCHANGED <<storeVars, mig, job, dec, bat, rev, sc, wx, fc>>
    \/ BackgroundTaskStart /\ UNCHANGED <<storeVars, mig, job, dec, bat, rev, sc, wx, fc>>
    \/ _run_daily_import_cycle /\ UNCHANGED <<storeVars, mig, job, dec, bat, rev, sc, wx, fc>>
    \/ RunBatch /\ UNCHANGED <<storeVars, mig, job, dec, bat, rev, sc, wx, fc>>
    \/ RunCompletes /\ UNCHANGED <<storeVars, mig, job, dec, bat, rev, sc, wx, fc>>
    \/ RunRaises /\ UNCHANGED <<storeVars, mig, job, dec, bat, rev, sc, wx, fc>>

SpecGuard == Init /\ [][NextGuard]_vars

\* The event loop runs every task it was given: a queued background task
\* starts, and a run that is not stopped by an exception goes through its
\* batches to its end.
SpecGuardLive ==
    /\ SpecGuard
    /\ WF_vars(BackgroundTaskStart /\ UNCHANGED <<storeVars, mig, job, dec, bat, rev, sc, wx, fc>>)
    /\ WF_vars(RunBatch /\ UNCHANGED <<storeVars, mig, job, dec, bat, rev, sc, wx, fc>>)
    /\ WF_vars(RunCompletes /\ UNCHANGED <<storeVars, mig, job, dec, bat, rev, sc, wx, fc>>)

\* The decisions, one product after the other.
NextDecide ==
    \/ MatchStart /\ UNCHANGED <<storeVars, mig, job, guardVars, bat, rev, sc, wx, fc>>
    \/ MatchNoCandidates /\ UNCHANGED <<storeVars, mig, job, guardVars, bat, rev, sc, wx, fc>>
    \/ MatchAuto /\ UNCHANGED <<storeVars, mig, job, guardVars, bat, rev, sc, wx, fc>>
    \/ MatchConsult /\ UNCHANGED <<storeVars, mig, job, guardVars, bat, rev, sc, wx, fc>>
    \/ OracleAnswers /\ UNCHANGED <<storeVars, mig, job, guardVars, bat, rev, sc, wx, fc>>
    \/ OracleRaises /\ UNCHANGED <<storeVars, mig, job, guardVars, bat, rev, sc, wx, fc>>
    \/ MatchFallback /\ UNCHANGED <<storeVars, mig, job, guardVars, bat, rev, sc, wx, fc>>
    \/ MatchReturn /\ UNCHANGED <<storeVars, mig, job, guardVars, bat, rev, sc, wx, fc>>

SpecDecide == Init /\ [][NextDecide]_vars

\* The batches, one run after the other.
NextBatch ==
    \/ BatchStart /\ UNCHANGED <<storeVars, mig, job, guardVars, dec, rev, sc, wx, fc>>
    \/ BatchRead /\ UNCHANGED <<storeVars, mig, job, guardVars, dec, rev, sc, wx, fc>>
    \/ BatchProgress /\ UNCHANGED <<storeVars, mig, job, guardVars, dec, rev, sc, wx, fc>>
    \/ ListingDecided /\ UNCHANGED <<storeVars, mig, job, guardVars, dec, rev, sc, wx, fc>>
    \/ ListingRaises /\ UNCHANGED <<storeVars, mig, job, guardVars, dec, rev, sc, wx, fc>>
    \/ ListingConsults /\ UNCHANGED <<storeVars, mig, job, guardVars, dec, rev, sc, wx, fc>>
    \/ BatchOracleAnswers /\ UNCHANGED <<storeVars, mig, job, guardVars, dec, rev, sc, wx, fc>>
    \/ BatchOracleFails /\ UNCHANGED <<storeVars, mig, job, guardVars, dec, rev, sc, wx, fc>>
    \/ OracleDelay /\ UNCHANGED <<storeVars, mig, job, guardVars, dec, rev, sc, wx, fc>>
    \/ RecordNoMatch /\ UNCHANGED <<storeVars, mig, job, guardVars, dec, rev, sc, wx, fc>>
    \/ RecordMatch /\ UNCHANGED <<storeVars, mig, job, guardVars, dec, rev, sc, wx, fc>>
    \/ MergeDone /\ UNCHANGED <<storeVars, mig, job, guardVars, dec, rev, sc, wx, fc>>
    \/ MergeRaises /\ UNCHANGED <<storeVars, mig, job, guardVars, dec, rev, sc, wx, fc>>
    \/ BatchEnd /\ UNCHANGED <<storeVars, mig, job, guardVars, dec, rev, sc, wx, fc>>
    \/ BatchReturn /\ UNCHANGED <<storeVars, mig, job, guardVars, dec, rev, sc, wx, fc>>

SpecBatch == Init /\ [][NextBatch]_vars

\* The importer and the review passes over the store it fills.
NextReview ==
    \/ Import /\ UNCHANGED <<mig, job, guardVars, dec, bat, rev, sc, wx, fc>>
    \/ ReviewStart /\ UNCHANGED <<mig, job, guardVars, dec, bat, sc, wx, fc>>
    \/ ReviewItem /\ UNCHANGED <<mig, job, guardVars, dec, bat, sc, wx, fc>>
    \/ ReviewReturn /\ UNCHANGED <<mig, job, guardVars, dec, bat, sc, wx, fc>>

SpecReview == Init /\ [][NextReview]_vars

\* The scorer on one candidate after the other.
NextScore ==
    \/ ScoreCandidate /\ UNCHANGED <<storeVars, mig, job, guardVars, dec, bat, rev, wx, fc>>
    \/ ScoreNext /\ UNCHANGED <<storeVars, mig, job, guardVars, dec, bat, rev, wx, fc>>

SpecScore == Init /\ [][NextScore]_vars

\* The records of a file, parsed one after the other.
NextWeight ==
    \/ ParseProduct /\ UNCHANGED <<storeVars, mig, job, guardVars, dec, bat, rev, sc, fc>>
    \/ MapperExtractsWeight /\ UNCHANGED <<storeVars, mig, job, guardVars, dec, bat, rev, sc, fc>>
    \/ WeightNext /\ UNCHANGED <<storeVars, mig, job, guardVars, dec, bat, rev, sc, fc>>

SpecWeight == Init /\ [][NextWeight]_vars

\* The candidate retrievals, one query product after the other.
NextFind ==
    \/ FindStart /\ UNCHANGED <<storeVars, mig, job, guardVars, dec, bat, rev, sc, wx>>
    \/ StrategyScores /\ UNCHANGED <<storeVars, mig, job, guardVars, dec, bat, rev, sc, wx>>
    \/ NextStrategy /\ UNCHANGED <<storeVars, mig, job, guardVars, dec, bat, rev, sc, wx>>
    \/ FindReturn /\ UNCHANGED <<storeVars, mig, job, guardVars, dec, bat, rev, sc, wx>>
    \/ FindNext /\ UNCHANGED <<storeVars, mig, job, guardVars, dec, bat, rev, sc, wx>>

SpecFind == Init /\ [][NextFind]_vars

(***************************************************************************)
(* Properties of the store and its writers.                               *)
(***************************************************************************)
Entries(prices) == {prices[i] : i \in 1..Len(prices)}

\* A canonical product: a document that is there and is not a tombstone.
IsCanonical(doc) == doc.exists /\ doc.mapping_status # "merged_into_parent"

\* The canonical products that hold a price entry.
Holders(db, entry) == {i \in ProductIds : IsCanonical(db[i]) /\ entry \in Entries(db[i].prices)}

AllEntries == {PriceEntry(a, n) : a \in Aggregators, n \in Names}

\* No writer is at work: every run that was started has ended.
Quiescent == job.pc = "idle" /\ mig.pc = "idle"

\* C1: after any sequence of imports, matching runs and merges, no product
\* holds two price entries of the same aggregator.
C1_OnePricePerSource ==
    \A id \in ProductIds :
        \A i, j \in 1..Len(products[id].prices) :
            i # j => products[id].prices[i].aggregator # products[id].prices[j].aggregator

\* A step in which the matching job merges the matched product it read into
\* the query product (update_one with prices), and the step in which the
\* migration merges the cursor's product into its target.
JobMergeStep == job.pc = "update" /\ job.matched_product.exists /\ job'.pc = "delete"
MigMergeStep == mig.pc = "cursor" /\ mig'.pc = "mark"

PricesUnchanged == \A id \in ProductIds : products'[id].prices = products[id].prices

\* C2: a merge requested for a source listing whose mapping_status is no
\* longer pending is a no-op: it changes no price entry of any product.
C2_MergeOfNonPendingIsNoOp ==
    [][ /\ (JobMergeStep /\ job.matched_product.mapping_status # "pending")
            => PricesUnchanged
        /\ (MigMergeStep /\ products[mig'.product].mapping_status # "pending")
            => PricesUnchanged ]_vars

\* C3: whenever no run is at work, every price entry held by the store is
\* held by exactly one canonical product (never by two), and no step of a
\* matching or migration run takes an entry away from the canonical products
\* altogether (never by none).
C3_ExactlyOneProductPerListing ==
    /\ [](Quiescent => \A e \in AllEntries : Cardinality(Holders(products, e)) <= 1)
    /\ [][(job' # job \/ mig' # mig) =>
             \A e \in AllEntries :
                Holders(products, e) # {} => Holders(products', e) # {}]_vars

\* C4: a merged source listing is tombstoned and never deleted: no step
\* removes a listing record from the store.
C4_NoRecordIsEverRemoved ==
    [][\A id \in ProductIds : products[id].exists => products'[id].exists]_vars

\* C5: a listing's mapping_status only moves forward: never back to pending,
\* and never from merged_into_parent back to matched.
C5_StatusOnlyMovesForward ==
    [][\A id \in ProductIds :
          (products[id].exists /\ products'[id].exists) =>
             /\ products[id].mapping_status # "pending"
                   => products'[id].mapping_status # "pending"
             /\ products[id].mapping_status = "merged_into_parent"
                   => products'[id].mapping_status = "merged_into_parent" ]_vars

\* C6: an interrupted run leaves no partial merge: no target that has
\* absorbed a listing's price entries while the listing is still a live,
\* un-tombstoned record.
C6_InterruptLeavesNoPartialMerge ==
    /\ (job.pc = "interrupted" /\ job.matched_id # 0)
          => ~( /\ IsCanonical(products[job.matched_id])
                /\ products[Head(job.our_products)].exists
                /\ Entries(products[job.matched_id].prices)
                      \subseteq Entries(products[Head(job.our_products)].prices) )
    /\ (mig.pc = "killed" /\ mig.product # 0)
          => ~( /\ IsCanonical(products[mig.product])
                /\ products[mig.target].exists
                /\ Entries(products[mig.product].prices)
                      \subseteq Entries(products[mig.target].prices) )

\* C8: when the decision's target id does not resolve, the job's step
\* mutates nothing (the query listing is not marked matched) and the batch
\* goes on with the next listing.
C8_UnresolvedTargetMutatesNothing ==
    [][ (job.pc = "update" /\ ~job.matched_product.exists /\ job'.pc = "loop")
           => /\ products' = products
              /\ job'.our_products = Tail(job.our_products) ]_vars

InPass(j) == j.pc \in {"loop", "update", "delete"}

\* C23: the candidate index is built at the start of a run and is not
\* mutated during the matching pass: no step of the pass (a decision, a
\* merge, a failed write) nor any import or migration at work meanwhile
\* changes the corpus snapshot or an entry of the index built from it.
C23_IndexIsReadOnlyDuringThePass ==
    [][(InPass(job) /\ InPass(job'))
          => /\ job'.all_products = job.all_products
             /\ _build_indexes(job'.all_products) = _build_indexes(job.all_products)]_vars

\* The pass goes on after a merge removed from the store a product that the
\* snapshot, and the index over it, still hold.
C23_Witness ==
    /\ job.pc = "loop"
    /\ job.our_products # << >>
    /\ \E id \in ProductIds :
          /\ job.all_products[id].exists
          /\ ~products[id].exists
          /\ id \in _build_indexes(job.all_products)["cola"]

(***************************************************************************)
(* Properties of the starts of the matching job.                          *)
(***************************************************************************)
\* C7: at most one matching job runs at a time, under any interleaving of
\* requests to the endpoint and scheduled cycles.
C7_AtMostOneJobRuns == Cardinality(Running) <= 1

\* C25: the flag is_running is eventually reset after every started run,
\* also after a run that ends with an exception: whenever the flag is set,
\* it is clear again at some later time.
C25_FlagIsEventuallyReset ==
    MATCHING_STATUS.is_running ~> ~MATCHING_STATUS.is_running

(***************************************************************************)
(* Properties of the decision.                                            *)
(***************************************************************************)
\* C9: when the top candidate's score is at or above auto_match_threshold,
\* the decision is a match on the top candidate, the candidate of the
\* highest score, and the oracle is not called for the product.
C9_AutoMatchWithoutOracle ==
    (dec.candidates # << >> /\ dec.candidates[1].score >= auto_match_threshold)
       => /\ dec.oracle_calls = 0
          /\ \A i \in 1..Len(dec.candidates) :
                dec.candidates[i].score <= dec.candidates[1].score
          /\ dec.pc = "decided"
                => /\ Decision(dec.result) = "match"
                   /\ dec.result.matched_uuid = dec.candidates[1].id

\* A product with two candidates, the first at the threshold itself, is
\* decided a match on it with the oracle at hand and not called.
C9_Witness ==
    /\ dec.pc = "decided"
    /\ Len(dec.candidates) = 2
    /\ dec.candidates[1].score = auto_match_threshold
    /\ dec.use_ai /\ dec.client
    /\ dec.oracle_calls = 0
    /\ Decision(dec.result) = "match"
    /\ dec.result.matched_uuid = dec.candidates[1].id

\* C10: after the oracle was consulted the decision is match if and only if
\* the oracle's verdict is match and its confidence is at least
\* match_threshold minus the leniency margin; a verdict of no_match, or a
\* confidence under that bound, gives no_match.
C10_OracleDecision ==
    (dec.pc = "decided" /\ dec.oracle_calls > 0)
       => /\ Decision(dec.result) = "match"
                <=> /\ dec.answer.best_match = "match"
                    /\ dec.answer.match_confidence >= match_threshold - LeniencyMargin
          /\ ( \/ dec.answer.best_match = "no_match"
               \/ dec.answer.match_confidence < match_threshold - LeniencyMargin )
                => Decision(dec.result) = "no_match"

\* The oracle asserted a match with a confidence inside the leniency margin
\* and the decision is match.
C10_Witness ==
    /\ dec.pc = "decided"
    /\ dec.oracle_calls = 1
    /\ dec.answer.best_match = "match"
    /\ dec.answer.match_confidence = match_threshold - LeniencyMargin
    /\ Decision(dec.result) = "match"

\* C11: the oracle is never consulted for a product none of whose scored
\* candidates reaches min_candidate_threshold: it is rejected directly.
C11_NoOracleBelowFloor ==
    (dec.pc # "idle" /\ \A c \in CandIds : dec.raw[c] < min_candidate_threshold)
       => /\ dec.oracle_calls = 0
          /\ dec.pc # "oracle"
          /\ dec.pc = "decided" => Decision(dec.result) = "no_match"

\* A product whose best score is under the floor is decided no_match with
\* the oracle at hand and not called.
C11_Witness ==
    /\ dec.pc = "decided"
    /\ \A c \in CandIds : dec.raw[c] < min_candidate_threshold
    /\ dec.use_ai /\ dec.client
    /\ dec.oracle_calls = 0
    /\ Decision(dec.result) = "no_match"

\* C12: when the indexed strategies and then the fallback yield no
\* candidate, the decision is no_match with the no-candidates reason and
\* confidence 0, without an oracle call.
C12_NoCandidatesIsNoMatch ==
    (dec.pc = "decided" /\ dec.candidates = << >>)
       => /\ dec.result.best_match = "no_match"
          /\ dec.result.reason = "no_candidates"
          /\ dec.result.match_confidence = 0
          /\ dec.oracle_calls = 0

\* Both retrievals came back empty and the product is decided, the oracle
\* at hand.
C12_Witness ==
    /\ dec.pc = "decided"
    /\ dec.candidates = << >>
    /\ dec.fallback_used
    /\ dec.use_ai /\ dec.client
    /\ dec.result.reason = "no_candidates"

\* C13: when the oracle call raises or its output cannot be parsed, the
\* decision is no_match with the oracle-error reason and no target; the
\* decision is returned like any other and the next product is decided.
C13_OracleErrorIsNoMatch ==
    (dec.pc = "decided" /\ dec.answer.best_match = "error")
       => /\ Decision(dec.result) = "no_match"
          /\ dec.result.reason = "oracle_error"
          /\ dec.result.matched_uuid = 0

\* The oracle was called, failed, and the product is decided no_match.
C13_Witness ==
    /\ dec.pc = "decided"
    /\ dec.oracle_calls = 1
    /\ dec.answer.best_match = "error"
    /\ dec.result = OracleErrorResult

\* C26: when the oracle accepts a match, the target id of the decision is
\* the id of one of the candidates that were submitted to the oracle.
C26_OracleTargetIsACandidate ==
    (/\ dec.pc = "decided"
     /\ dec.answer.best_match \in Verdicts
     /\ Decision(dec.result) = "match")
       => dec.result.matched_uuid \in {dec.candidates[i].id : i \in 1..Len(dec.candidates)}

(***************************************************************************)
(* Properties of the batch.                                               *)
(***************************************************************************)
\* C14: every oracle failure is counted: once the product is recorded, the
\* run's errors counter is at least the number of oracle calls that failed.
C14_OracleFailuresAreCounted ==
    bat.pc \in {"loop", "done"} => bat.results.errors >= bat.oracle_failures

\* C15: a failure while deciding or merging one product is isolated: it is
\* counted in errors, the exception never leaves run_matching, and the run
\* ends with every product gone through and the report of its counters.
C15_FailuresAreIsolated ==
    /\ bat.pc # "raised"
    /\ bat.results.errors = bat.failures
    /\ bat.pc = "done"
          => /\ bat.remaining = 0
             /\ bat.results.matched + bat.results.no_match + bat.results.errors
                   >= bat.total

\* A run of two products ended with one failure counted and the other
\* product decided.
C15_Witness ==
    /\ bat.pc = "done"
    /\ bat.total = 2
    /\ bat.failures = 1
    /\ bat.results.errors = 1
    /\ bat.results.no_match = 1

\* C16: between two consecutive oracle calls of a run the delay elapses,
\* whether the earlier call was answered or failed.
C16_DelayBetweenOracleCalls ==
    [][bat'.oracle_calls = bat.oracle_calls + 1
          => (bat.oracle_calls = 0 \/ bat.delayed)]_vars

\* A second oracle call is issued in a run whose first call failed.
C16_Witness ==
    /\ bat.pc = "oracle"
    /\ bat.oracle_calls = 2
    /\ bat.oracle_failures = 1

\* C27: when run_matching completes, its report satisfies
\* matched + no_match + errors = total, also when a failure happened after
\* the decision, during the writes of the merge.
C27_ReportAddsUpToTotal ==
    bat.pc = "done"
       => bat.results.matched + bat.results.no_match + bat.results.errors = bat.total

\* The run is suspended at an await, where the progress endpoint can be
\* served: the oracle call, the delay after it, the reads and writes of the
\* merge, and the sleep after a batch.
AtAwait ==
    \/ bat.pc \in {"oracle", "sleep", "merge"}
    \/ bat.pc = "loop" /\ bat.in_batch = 0 /\ bat.status.processed > 0

\* C28: in every state the progress endpoint can observe during a run, the
\* live counters are consistent: processed <= total and
\* matched + errors <= processed.
C28_LiveCountersAreConsistent ==
    AtAwait
       => /\ bat.status.processed <= bat.status.total
          /\ bat.status.matched + bat.status.errors <= bat.status.processed

(***************************************************************************)
(* Properties of the review pass.                                         *)
(***************************************************************************)
\* C18: a review pass never alters committed state: whatever the items and
\* the verdicts, its steps leave every product, its prices and its
\* mapping_status as they were.
C18_ReviewLeavesStoreUnchanged ==
    [][rev' # rev => (products' = products /\ nextId' = nextId)]_vars

\* A pass has judged one item correct and another likely wrong, both
\* resolved to products of the store.
C18_Witness ==
    /\ rev.pc = "items"
    /\ rev.summary.correct = 1
    /\ rev.summary.likely_wrong = 1

ReviewVerdicts == {"correct", "needs_review", "likely_wrong", "unmapped", "not_found"}

C19_ScoreWithinBounds ==
    (sc.pc = "scored" /\ sc.score # -1) => (0 <= sc.score /\ sc.score <= 100)

\* Signals that sum to more than 100 are stored as 100.
C19_Witness ==
    /\ sc.pc = "scored"
    /\ RawScore(sc.signals) > 100
    /\ sc.score = 100

\* C20: title, weight and the other signals and the boost fixed, a candidate
\* scored with an exact brand match never gets a lower total score than
\* scored with no brand match, and is stored whenever the other is.
C20_BrandMatchNeverLowersScore ==
    sc.pc = "scored"
       => LET exact == [sc.signals EXCEPT !.brand = "exact"]
              none == [sc.signals EXCEPT !.brand = "none"]
          IN  /\ TotalScore(exact) >= TotalScore(none)
              /\ _score_candidate_enhanced(exact) >= _score_candidate_enhanced(none)

\* A candidate scored with an exact brand match is stored with a score
\* above the one it would be stored with without the brand.
C20_Witness ==
    /\ sc.pc = "scored"
    /\ sc.signals.brand = "exact"
    /\ _score_candidate_enhanced([sc.signals EXCEPT !.brand = "none"]) >= 0
    /\ sc.score > _score_candidate_enhanced([sc.signals EXCEPT !.brand = "none"])

(***************************************************************************)
(* Properties of the run's configuration.                                 *)
(***************************************************************************)
\* C21: a run for which the oracle is required (use_ai) while no credentials
\* are available (no client) is stopped at its start: it never goes on to
\* decide a listing.
C21_MissingCredentialsStopTheRun ==
    ~(dec.pc = "decided" /\ dec.use_ai /\ ~dec.client)

(***************************************************************************)
(* Properties of the weight extraction.                                   *)
(***************************************************************************)
MassVolumeUnits == {"g_cyr", "kg_cyr", "l_cyr", "ml_cyr", "g", "kg", "l", "ml"}

\* The quantity a text states, in thousandths of a gram or millilitre: its
\* first quantity, a kg or l value taken a thousand times, times the leading
\* multiplier.
StatedQuantity(text) ==
    LET i == FirstQuantity(text, MassVolumeUnits)
    IN  IF i = 0 THEN 0
        ELSE text[i].value
               * (IF text[i].text \in {"kg_cyr", "kg", "l_cyr", "l"} THEN 1000 ELSE 1)
               * (IF text[1].kind = "mul" THEN text[1].value ELSE 1)

\* C22: the weight extracted for a listing whose name states a mass or a
\* volume (and whose record has no dedicated quantity field) is that
\* quantity in grams or millilitres: 500 g and 0.5 kg both give 500, and a
\* leading multiplier multiplies the result.
C22_WeightIsNormalised ==
    (/\ wx.pc = "extracted"
     /\ wx.data.weight = << >>
     /\ FirstQuantity(wx.product.name, MassVolumeUnits) # 0
     /\ FirstQuantity(wx.product.name, MassVolumeUnits)
           = FirstQuantity(wx.product.name, MassVolumeUnits \cup {"sht_cyr", "pcs"}))
       => wx.weight = StatedQuantity(wx.product.name)

\* C24: the dedicated quantity field is tried before the title: when the
\* field yields a quantity, the weight stored for the record is the field's,
\* whatever the title says.
C24_DedicatedFieldBeforeTitle ==
    (wx.pc # "idle" /\ ExtractFromSource(wx.data.weight) # NoWeight)
       => [value |-> wx.product.weight_value, unit |-> wx.product.weight_unit]
             = ExtractFromSource(wx.data.weight)

(***************************************************************************)
(* Properties of the candidate retrieval.                                 *)
(***************************************************************************)
\* C30: for one query, each candidate product appears at most once in the
\* returned list, however many strategies reached it; its entry is the one
\* written by the last scoring that reached the minimum threshold (a later
\* score under the threshold leaves it in place); the list is ordered by
\* non-increasing score, ties by higher aggregator count, and holds at most
\* max_candidates entries: the products that ever reached the threshold, up
\* to max_candidates of them.
C30_OneEntryPerCandidate ==
    fc.pc = "returned"
       => LET r == fc.returned
              n == Len(r)
              kept == {c \in CandIds : fc.last_ok[c] # -1}
          IN  /\ \A i, j \in 1..n : i # j => r[i].id # r[j].id
              /\ \A i \in 1..n :
                    /\ r[i].id \in kept
                    /\ r[i].score = Min({fc.last_ok[r[i].id], 100})
                    /\ r[i].aggregator_count = fc.aggregator_count[r[i].id]
              /\ \A i \in 1..(n - 1) :
                    \/ r[i].score > r[i + 1].score
                    \/ /\ r[i].score = r[i + 1].score
                       /\ r[i].aggregator_count >= r[i + 1].aggregator_count
              /\ n <= fc.max_candidates
              /\ n = Min({fc.max_candidates, Cardinality(kept)})

\* Two products were kept and one is returned (max_candidates is 1): a
\* product whose latest scoring fell under the threshold, with the score an
\* earlier strategy gave it.
C30_Witness ==
    /\ fc.pc = "returned"
    /\ Len(fc.candidates) = 2
    /\ Len(fc.returned) = 1
    /\ fc.last_low[fc.returned[1].id]
    /\ fc.returned[1].score = fc.last_ok[fc.returned[1].id]
====
